---- MODULE Spec2Model ----
(***************************************************************************)
(* Offer Discovery Engine: the offer registry (acp_sdk/discovery/          *)
(* registry.py), its embedding adapter (vector_search.py) and the hybrid   *)
(* ranking service (gor/services/search_service.py), over a Qdrant         *)
(* collection.                                                             *)
(*                                                                         *)
(* Conventions.  A Python str is a sequence of one-character strings, so   *)
(* that lower(), split(), "in" and concatenation are computed.  An         *)
(* Optional value is <<>> (None) or <<v>>.  A float score is an exact      *)
(* rational <<n, d>> in lowest terms.  Instants are whole hours, distances *)
(* whole metres, coordinates whole milli-degrees.                          *)
(***************************************************************************)
EXTENDS Integers, Sequences, FiniteSets, TLC

VARIABLES
    coll,       \* the Qdrant collection "acp_offers": None, or its vector config
    store,      \* the points of the collection: point id -> point
    up,         \* TRUE while the Qdrant server answers
    procs,      \* per registry process: its str-hash secret and OPENAI_API_KEY
    calls,      \* index_offer coroutines in flight
    sreq,       \* the request being served: SearchParams and the clock, or
                \* what the ingestion source holds, or the id looked up
    sresp,      \* the answer to it
    ranking,    \* base_results and the sorted scored_offers of that request
    sin,        \* input of the last scoring call
    sout        \* its scores

vars == <<coll, store, up, procs, calls, sreq, sresp, ranking, sin, sout>>

----------------------------------------------------------------------------
(* Python values *)

None == <<>>
Some(v) == <<v>>

\* bool(x) is False for None and for 0 / 0.0
Falsy(x) == x = None \/ x = Some(0)

Min(a, b) == IF a <= b THEN a ELSE b
Max(a, b) == IF a >= b THEN a ELSE b
Abs(a) == IF a < 0 THEN -a ELSE a

RECURSIVE GCD(_, _)
GCD(a, b) == IF b = 0 THEN a ELSE GCD(b, a % b)

\* exact rationals <<n, d>>, d > 0, lowest terms
Rat(n, d) ==
    LET g == GCD(Abs(n), Abs(d))
        s == IF d < 0 THEN -1 ELSE 1
    IN  IF n = 0 THEN <<0, 1>> ELSE <<s * (n \div g), s * (d \div g)>>
RAdd(a, b) == Rat(a[1] * b[2] + b[1] * a[2], a[2] * b[2])
RSub(a, b) == Rat(a[1] * b[2] - b[1] * a[2], a[2] * b[2])
RMul(a, b) == Rat(a[1] * b[1], a[2] * b[2])
RLeq(a, b) == a[1] * b[2] <= b[1] * a[2]
RLt(a, b) == a[1] * b[2] < b[1] * a[2]
RMin(a, b) == IF RLeq(a, b) THEN a ELSE b
RMax(a, b) == IF RLeq(b, a) THEN a ELSE b
RZero == <<0, 1>>
ROne == <<1, 1>>

----------------------------------------------------------------------------
(* str *)

LowerChar(c) ==
    CASE c = "P" -> "p"
      [] c = "O" -> "o"
      [] c = "U" -> "u"
      [] OTHER -> c

\* str.lower()
Lower(s) == [i \in 1..Len(s) |-> LowerChar(s[i])]

IsSpace(c) == c = " "

\* needle in hay
Contains(hay, needle) ==
    \E i \in 0..(Len(hay) - Len(needle)) :
        \A j \in 1..Len(needle) : hay[i + j] = needle[j]

RECURSIVE LStrip(_)
LStrip(s) == IF s # <<>> /\ IsSpace(Head(s)) THEN LStrip(Tail(s)) ELSE s

RECURSIVE RStrip(_)
RStrip(s) ==
    IF s # <<>> /\ IsSpace(s[Len(s)]) THEN RStrip(SubSeq(s, 1, Len(s) - 1)) ELSE s

\* str.strip()
Strip(s) == RStrip(LStrip(s))

\* str.split(): the maximal runs of non-whitespace, in order
RECURSIVE SplitFrom(_, _, _)
SplitFrom(s, i, cur) ==
    IF i > Len(s) THEN (IF cur = <<>> THEN <<>> ELSE <<cur>>)
    ELSE IF IsSpace(s[i])
         THEN (IF cur = <<>> THEN <<>> ELSE <<cur>>) \o SplitFrom(s, i + 1, <<>>)
         ELSE SplitFrom(s, i + 1, Append(cur, s[i]))
Split(s) == SplitFrom(s, 1, <<>>)

\* sep.join(parts)
RECURSIVE Join(_, _)
Join(sep, parts) ==
    IF parts = <<>> THEN <<>>
    ELSE IF Len(parts) = 1 THEN parts[1]
    ELSE parts[1] \o sep \o Join(sep, Tail(parts))

\* list(filter(bool, parts)) on a list of str
RECURSIVE FilterNonEmpty(_)
FilterNonEmpty(parts) ==
    IF parts = <<>> THEN <<>>
    ELSE IF Head(parts) = <<>> THEN FilterNonEmpty(Tail(parts))
    ELSE <<Head(parts)>> \o FilterNonEmpty(Tail(parts))

InList(x, xs) == \E i \in 1..Len(xs) : xs[i] = x

----------------------------------------------------------------------------
(* str literals *)

S_empty == <<>>
S_pizza == <<"p", "i", "z", "z", "a">>
S_Pizza == <<"P", "i", "z", "z", "a">>
S_thai == <<"t", "h", "a", "i">>
S_lunch == <<"l", "u", "n", "c", "h">>
S_dinner == <<"d", "i", "n", "n", "e", "r">>
S_midday == <<"m", "i", "d", "d", "a", "y">>
S_evening == <<"e", "v", "e", "n", "i", "n", "g">>
S_dine_in == <<"d", "i", "n", "e", "-", "i", "n">>
S_takeout == <<"t", "a", "k", "e", "o", "u", "t">>
S_dover_nh == <<"d", "o", "v", "e", "r", "-", "n", "h">>
S_new_hampshire == <<"n", "e", "w", "-", "h", "a", "m", "p", "s", "h", "i", "r", "e">>
S_seacoast == <<"s", "e", "a", "c", "o", "a", "s", "t">>
S_otto == <<"o", "t", "t", "o">>
S_Otto == <<"O", "t", "t", "o">>
S_m1 == <<"m", "1">>
S_m2 == <<"m", "2">>
S_m3 == <<"m", "3">>
S_o1 == <<"o", "1">>
S_o2 == <<"o", "2">>
S_o3 == <<"o", "3">>
S_underscore == <<"_">>
S_space == <<" ">>
S_deal == <<"d", "e", "a", "l">>
S_hot == <<"h", "o", "t">>

----------------------------------------------------------------------------
(* Offer documents, as the ingestion source serves them *)

ExpNone == [kind |-> "none"]
\* an ISO-8601 string: wall-clock reading, then "Z", "+hh:00", nothing, or not a date at all
ExpStr(form, wall, off) == [kind |-> "str", form |-> form, wall |-> wall, off |-> off]
\* a datetime object, timezone-aware or naive
ExpDt(aware, wall, off) == [kind |-> "datetime", aware |-> aware, wall |-> wall, off |-> off]

Location(lat, lng) == [lat |-> lat, lng |-> lng, city |-> S_empty, state |-> S_empty]

OfferDoc(oid, mid, mname, title, desc, labels, loc, exp, terms) ==
    [offer_id |-> oid,
     merchant |-> [id |-> mid, name |-> mname, location |-> loc],
     title |-> title,
     description |-> desc,
     content |-> [cuisine_type |-> S_pizza, restaurant_description |-> S_empty,
                  featured_items |-> <<>>],
     terms |-> terms,
     bounty |-> "bounty",
     labels |-> labels,
     created_at |-> "created",
     updated_at |-> "updated",
     expires_at |-> exp]

\* the clock of the model, in hours, and the length of a day
Now0 == 240
DayHours == 24

\* (m1, o1) in two revisions, and other merchants' offers
D1 == OfferDoc(S_o1, S_m1, S_Otto, S_deal, S_empty, <<S_pizza, S_lunch>>,
               Location(Some(1), Some(1)), ExpStr("Z", Now0 + 3 * DayHours, 0), "terms-r1")
D1r == OfferDoc(S_o1, S_m1, S_Otto, S_Pizza, S_hot, <<S_pizza>>,
               Location(Some(1), Some(2)), ExpNone, "terms-r2")
D2 == OfferDoc(S_o1, S_m2, S_otto, S_pizza, S_empty, <<S_pizza, S_dinner>>,
               Location(None, None), ExpStr("Z", Now0 - 2 * DayHours, 0), "terms")
D3 == OfferDoc(S_o2, S_m2, S_otto, S_deal, S_pizza, <<S_thai>>,
               Location(Some(3), Some(1)), ExpStr("naive", Now0 - 2 * DayHours, 0), "terms")
D4 == OfferDoc(S_o3, S_m2, S_otto, S_deal, S_empty, <<S_pizza>>,
               Location(Some(2), Some(1)), ExpStr("offset", Now0 + 200 * DayHours + 2, 2), "terms")
D5 == OfferDoc(S_o1, S_m3, S_otto, S_deal, S_empty, <<>>,
               Location(Some(0), Some(1)), ExpStr("Z", Now0 + 20 * DayHours, 0), "terms")
D6 == OfferDoc(S_o2, S_m3, S_otto, S_deal, S_empty, <<>>,
               Location(Some(1), Some(3)), ExpStr("Z", Now0 + 20 * DayHours, 0), "terms")
D7 == OfferDoc(S_o3, S_m3, S_otto, S_hot, S_empty, <<S_thai>>,
               Location(Some(1), Some(1)), ExpStr("bad", 0, 0), "terms")

----------------------------------------------------------------------------
(* OfferRegistry.generate_search_text *)

GenericLabels ==
    <<S_lunch, S_dinner, S_midday, S_evening, S_dine_in, S_takeout,
      S_dover_nh, S_new_hampshire, S_seacoast>>

NotGeneric(label) == ~InList(label, GenericLabels)

generate_search_text(offer) ==
    LET parts ==
          << offer.content.cuisine_type,
             offer.content.restaurant_description,
             Join(S_space, offer.content.featured_items),
             offer.merchant.name,
             Join(S_space, SelectSeq(offer.labels, NotGeneric)),
             offer.title,
             offer.description,
             offer.merchant.location.city,
             offer.merchant.location.state >>
    IN  Lower(Join(S_space, FilterNonEmpty(parts)))

----------------------------------------------------------------------------
(* VectorSearchService: embeddings.  A vector is its dimension, its origin *)
(* and a two-component direction that stands for its 1536 floats; cosine   *)
(* similarity is computed on the direction.                                *)

EmbeddingDim == 1536

Alphabet ==
    <<" ", "_", "-", "a", "c", "d", "e", "g", "h", "i", "k", "l", "m", "n", "o",
      "p", "r", "s", "t", "u", "v", "w", "z", "1", "2", "3", "P", "O", "U", "9">>

CharCode(c) == CHOOSE i \in 1..Len(Alphabet) : Alphabet[i] = c

\* a digest of the characters of s, in 0..127
RECURSIVE StrCode(_)
StrCode(s) ==
    IF s = <<>> THEN 0
    ELSE (StrCode(SubSeq(s, 1, Len(s) - 1)) * 31 + CharCode(s[Len(s)])) % 128

\* the direction the embedding model gives a word
WordDir(w) ==
    IF w = S_pizza THEN <<4, 1>>
    ELSE IF w = S_otto THEN <<3, 1>>
    ELSE IF w = S_thai THEN <<1, 4>>
    ELSE IF w = S_hot THEN <<1, 3>>
    ELSE <<1, 1>>

RECURSIVE SumDirs(_)
SumDirs(ws) ==
    IF ws = <<>> THEN <<0, 0>>
    ELSE LET r == SumDirs(Tail(ws))
             d == WordDir(Head(ws))
         IN  <<d[1] + r[1], d[2] + r[2]>>

\* openai.Embedding.create(input=text.strip(), model="text-embedding-ada-002")
OpenAIEmbedding(text) ==
    [dim |-> EmbeddingDim, origin |-> "openai", dir |-> SumDirs(Split(Strip(text)))]

\* a fallback drawn from a generator that advances with every answered call
_generate_mock_embedding_seeded(text) ==
    [dim |-> EmbeddingDim, origin |-> "mock",
     dir |-> <<-(3 + ((StrCode(text) + Cardinality({p \in DOMAIN sout :
                                          sout[p].kind # "none"})) % 2)),
               -(3 + ((StrCode(text) \div 2) % 2))>>]

\* every component of the md5-derived vector lies in [-0.63, -0.20]
_generate_mock_embedding(text) ==
    [dim |-> EmbeddingDim, origin |-> "mock",
     dir |-> <<-(3 + (StrCode(text) % 2)), -(3 + ((StrCode(text) \div 2) % 2))>>]

ZeroEmbedding == [dim |-> EmbeddingDim, origin |-> "zero", dir |-> <<0, 0>>]

\* get_embedding without its except clause
get_embedding_noexcept(text, api_key, backend_ok) ==
    IF text = <<>> \/ Strip(text) = <<>> THEN ZeroEmbedding
    ELSE IF api_key
         THEN (IF backend_ok THEN OpenAIEmbedding(text) ELSE [raised |-> TRUE])
         ELSE _generate_mock_embedding(text)

\* get_embedding: api_key is the process's OPENAI_API_KEY setting, backend_ok
\* says whether the call to the embedding backend succeeds
get_embedding(text, api_key, backend_ok) ==
    IF text = <<>> \/ Strip(text) = <<>> THEN ZeroEmbedding
    ELSE IF api_key
         THEN (IF backend_ok THEN OpenAIEmbedding(text)
               ELSE _generate_mock_embedding(text))
         ELSE _generate_mock_embedding(text)

----------------------------------------------------------------------------
(* Point ids *)

\* hash(str): a function of the string and of the secret the interpreter
\* draws at start-up (PYTHONHASHSEED is not pinned); hash("") is 0
PyHash(secret, s) ==
    IF s = <<>> THEN 0
    ELSE (((StrCode(s) + 1) * (2 * secret + 1) + 5 * secret) % 128) - 64

PointIdMask == 2147483647

\* h & 0x7fffffff, on the two's-complement reading of h
MaskPositive(h) == IF h >= 0 THEN h ELSE (h + PointIdMask) + 1

unique_id_of(merchant_id, offer_id) == merchant_id \o S_underscore \o offer_id

point_id_of(secret, unique_id) == MaskPositive(PyHash(secret, unique_id))

\* the payload index_offer prepares
Payload(offer, search_text) ==
    [offer_id |-> offer.offer_id,
     merchant_id |-> offer.merchant.id,
     merchant_name |-> offer.merchant.name,
     title |-> offer.title,
     description |-> offer.description,
     content |-> offer.content,
     terms |-> offer.terms,
     bounty |-> offer.bounty,
     labels |-> offer.labels,
     location |-> offer.merchant.location,
     search_text |-> search_text,
     created_at |-> offer.created_at,
     updated_at |-> offer.updated_at,
     expires_at |-> offer.expires_at,
     unique_id |-> unique_id_of(offer.merchant.id, offer.offer_id)]

\* PointStruct(id=point_id, vector=embedding, payload=payload)
PointStruct(secret, offer, search_text, embedding) ==
    [id |-> point_id_of(secret, unique_id_of(offer.merchant.id, offer.offer_id)),
     vector |-> embedding,
     payload |-> Payload(offer, search_text)]

\* qdrant.upsert(points=[point]): one atomic overwrite-by-id
Upsert(st, point) == (point.id :> point) @@ st

----------------------------------------------------------------------------
(* SearchService: the three scores.  A payload is what qdrant returns for  *)
(* a point; a score that raised is [raised |-> TRUE].                      *)

Value(r) == [raised |-> FALSE, value |-> r]
Raised == [raised |-> TRUE]

Count(xs, Test(_)) == Cardinality({i \in 1..Len(xs) : Test(xs[i])})

calculate_semantic_score(offer, query) ==
    IF query = <<>> THEN Rat(1, 2)
    ELSE
      LET query_lower == Lower(query)
          offer_text == Lower(offer.search_text)
          phrase == IF Contains(offer_text, query) THEN Rat(4, 10) ELSE RZero
          query_words == Split(query_lower)
          offer_words == Split(offer_text)
          InOfferWords(w) == InList(w, offer_words)
          word_matches == Count(query_words, InOfferWords)
          words == IF query_words # <<>>
                   THEN RMul(Rat(word_matches, Len(query_words)), Rat(3, 10))
                   ELSE RZero
          offer_labels == [i \in 1..Len(offer.labels) |-> Lower(offer.labels[i])]
          InOfferLabels(w) == InList(w, offer_labels)
          label_matches == Count(query_words, InOfferLabels)
          labels == IF query_words # <<>>
                    THEN RMul(Rat(label_matches, Len(query_words)), Rat(2, 10))
                    ELSE RZero
          title == Lower(offer.title)
          description == Lower(offer.description)
          in_title == IF Contains(title, query) THEN Rat(1, 10) ELSE RZero
          in_description == IF Contains(description, query) THEN Rat(5, 100) ELSE RZero
          score == RAdd(RAdd(RAdd(RAdd(phrase, words), labels), in_title), in_description)
      IN  RMin(score, ROne)

EarthRadiusKm == 6371

\* metres of great circle per milli-degree: R * 1000 * pi / 180 / 1000
MetresPerMilliDegree == (EarthRadiusKm * 31416) \div 1800000

ISqrt(n, hi) == CHOOSE r \in 0..hi : r * r <= n /\ n < (r + 1) * (r + 1)

\* haversine_distance * 1000, in whole metres, for coordinates in
\* milli-degrees within a few milli-degrees of (0, 0), where the great circle
\* is the straight line to better than one part in a million
haversine_distance_m(lat1, lon1, lat2, lon2) ==
    LET dlat == Abs(lat2 - lat1)
        dlon == Abs(lon2 - lon1)
        k == MetresPerMilliDegree
    IN  ISqrt(k * k * (dlat * dlat + dlon * dlon), k * (dlat + dlon))

\* lines 181-189: the score of a distance
geo_score_of_distance(distance_m, radius_m) ==
    IF distance_m <= radius_m
    THEN IF radius_m = 0 THEN Raised
         ELSE Value(RMax(RZero, RMin(
                  RSub(ROne, RMul(Rat(distance_m, radius_m), Rat(2, 10))), ROne)))
    ELSE IF radius_m = 0 THEN Raised
         ELSE Value(RMax(RZero, RMin(
                  RMax(RZero, RSub(Rat(8, 10),
                        RMul(Rat(distance_m - radius_m, radius_m), Rat(8, 10)))), ROne)))

calculate_geo_score(offer, lat, lng, radius_m) ==
    IF Falsy(lat) \/ Falsy(lng) THEN Value(Rat(1, 2))
    ELSE LET offer_lat == offer.location.lat
             offer_lng == offer.location.lng
         IN  IF Falsy(offer_lat) \/ Falsy(offer_lng) THEN Value(Rat(3, 10))
             ELSE geo_score_of_distance(
                      haversine_distance_m(lat[1], lng[1], offer_lat[1], offer_lng[1]),
                      radius_m)

\* datetime.fromisoformat(expires_at.replace('Z', '+00:00')), or the value
\* itself when it is not a str: an aware datetime is its instant in UTC, a
\* naive one is only a wall-clock reading, a malformed string raises
ParseExpiration(expires_at) ==
    IF expires_at.kind = "str"
    THEN CASE expires_at.form = "Z" ->
                 [ok |-> TRUE, aware |-> TRUE, at |-> expires_at.wall]
           [] expires_at.form = "offset" ->
                 [ok |-> TRUE, aware |-> TRUE, at |-> expires_at.wall - expires_at.off]
           [] expires_at.form = "naive" ->
                 [ok |-> TRUE, aware |-> FALSE, at |-> expires_at.wall]
           [] OTHER -> [ok |-> FALSE]
    ELSE [ok |-> TRUE, aware |-> expires_at.aware,
          at |-> IF expires_at.aware THEN expires_at.wall - expires_at.off
                 ELSE expires_at.wall]

\* now is datetime.now(timezone.utc), in hours
calculate_time_score(offer, now) ==
    LET expires_at == offer.expires_at
    IN  IF expires_at.kind = "none" THEN Rat(1, 2)
        ELSE LET expiration == ParseExpiration(expires_at)
             IN  IF ~expiration.ok THEN Rat(1, 2)
                 ELSE IF ~expiration.aware THEN Rat(1, 2)
                 ELSE LET days_until_expiry == (expiration.at - now) \div DayHours
                      IN  IF days_until_expiry < 0 THEN RZero
                          ELSE IF days_until_expiry <= 7 THEN ROne
                          ELSE IF days_until_expiry <= 30 THEN Rat(8, 10)
                          ELSE IF days_until_expiry <= 90 THEN Rat(6, 10)
                          ELSE Rat(4, 10)

\* the blend with the weights of geo and time exchanged
combined_score_swapped(semantic_score, geo_score, time_score) ==
    RAdd(RAdd(RMul(semantic_score, Rat(5, 10)), RMul(geo_score, Rat(2, 10))),
         RMul(time_score, Rat(3, 10)))

\* lines 94-98
combined_score(semantic_score, geo_score, time_score) ==
    RAdd(RAdd(RMul(semantic_score, Rat(5, 10)), RMul(geo_score, Rat(3, 10))),
         RMul(time_score, Rat(2, 10)))

\* the body of the loop of apply_hybrid_ranking for one offer
ScoreOffer(offer, params) ==
    LET semantic == calculate_semantic_score(offer, params.query)
        geo == calculate_geo_score(offer, params.lat, params.lng, params.radius_m)
        time == calculate_time_score(offer, params.now)
    IN  IF geo.raised THEN Raised
        ELSE [raised |-> FALSE, offer |-> offer,
              scores |-> [semantic |-> semantic, geo |-> geo.value, time |-> time,
                          combined |-> combined_score(semantic, geo.value, time)]]

----------------------------------------------------------------------------
(* apply_hybrid_ranking *)

Front(xs) == SubSeq(xs, 1, Len(xs) - 1)
Last(xs) == xs[Len(xs)]

\* a sort that is not stable: x goes ahead of the elements of equal key
InsertSorted_unstable(sorted, x) ==
    LET k == Cardinality({i \in 1..Len(sorted) :
                            RLt(x.scores.combined, sorted[i].scores.combined)})
    IN  SubSeq(sorted, 1, k) \o <<x>> \o SubSeq(sorted, k + 1, Len(sorted))

\* where list.sort(key=combined, reverse=True) leaves x among the already
\* sorted elements: behind every element whose key is not smaller
InsertSorted(sorted, x) ==
    LET k == Cardinality({i \in 1..Len(sorted) :
                            RLeq(x.scores.combined, sorted[i].scores.combined)})
    IN  SubSeq(sorted, 1, k) \o <<x>> \o SubSeq(sorted, k + 1, Len(sorted))

RECURSIVE SortByCombined(_)
SortByCombined(xs) ==
    IF xs = <<>> THEN <<>> ELSE InsertSorted(SortByCombined(Front(xs)), Last(xs))

\* scored_offers after the sort (line 111), and the list returned once the
\* "_scores" entries are popped; a score that raises ends the call
apply_hybrid_ranking(offers, params) ==
    LET scored == [i \in 1..Len(offers) |-> ScoreOffer(offers[i], params)]
    IN  IF \E i \in 1..Len(offers) : scored[i].raised THEN Raised
        ELSE LET sorted == SortByCombined(scored)
             IN  [raised |-> FALSE, scored |-> sorted,
                  offers |-> [i \in 1..Len(sorted) |-> sorted[i].offer]]

----------------------------------------------------------------------------
(* The Qdrant collection: filters, search and scroll *)

Dot(a, b) == a[1] * b[1] + a[2] * b[2]

\* cosine similarity, squared, of two directions with positive dot product
CosSquared(a, b) == Rat(Dot(a, b) * Dot(a, b), Dot(a, a) * Dot(b, b))

ScoreThreshold == Rat(75, 100)

AboveThreshold(qv, v) ==
    /\ Dot(qv.dir, v.dir) > 0
    /\ RLeq(RMul(ScoreThreshold, ScoreThreshold), CosSquared(qv.dir, v.dir))

\* Filter(must=[merchant_id = ..., labels any-of ...]); an absent condition
\* is None
MatchesFilter(payload, merchant_id, labels) ==
    /\ merchant_id = None \/ payload.merchant_id = merchant_id[1]
    /\ labels = None \/ \E i \in 1..Len(labels[1]) : InList(labels[1][i], payload.labels)

\* a ranks before b: higher similarity, equal similarity by id
RanksBefore(st, qv, a, b) ==
    LET ca == CosSquared(qv.dir, st[a].vector.dir)
        cb == CosSquared(qv.dir, st[b].vector.dir)
    IN  RLt(cb, ca) \/ (ca = cb /\ a < b)

RECURSIVE RankedIds(_, _, _)
RankedIds(st, qv, ids) ==
    IF ids = {} THEN <<>>
    ELSE LET best == CHOOSE a \in ids : \A b \in ids \ {a} : RanksBefore(st, qv, a, b)
         IN  <<best>> \o RankedIds(st, qv, ids \ {best})

RECURSIVE AscendingIds(_)
AscendingIds(ids) ==
    IF ids = {} THEN <<>>
    ELSE LET least == CHOOSE a \in ids : \A b \in ids : a <= b
         IN  <<least>> \o AscendingIds(ids \ {least})

\* xs[offset : offset + limit]
Slice(xs, offset, limit) == SubSeq(xs, offset + 1, Min(Len(xs), offset + limit))

\* every point the search can return, best first
SearchHits(st, qv, merchant_id, labels) ==
    RankedIds(st, qv,
        {id \in DOMAIN st : /\ MatchesFilter(st[id].payload, merchant_id, labels)
                            /\ AboveThreshold(qv, st[id].vector)})

\* qdrant.search(query_vector, query_filter, limit, offset, score_threshold=0.75)
qdrant_search(st, qv, merchant_id, labels, limit, offset) ==
    LET page == Slice(SearchHits(st, qv, merchant_id, labels), offset, limit)
    IN  [i \in 1..Len(page) |-> st[page[i]].payload]

\* qdrant.scroll(scroll_filter, limit, offset): points in id order, starting
\* at the point id given as offset
qdrant_scroll(st, merchant_id, labels, limit, offset) ==
    LET ids == AscendingIds({id \in DOMAIN st :
                    /\ MatchesFilter(st[id].payload, merchant_id, labels)
                    /\ id >= offset})
        page == Slice(ids, 0, limit)
    IN  [i \in 1..Len(page) |-> st[page[i]].payload]

----------------------------------------------------------------------------
(* OfferRegistry.search_offers and SearchService.search_offers *)

\* search_offers without its except clause: the store's error propagates
OfferRegistry_search_offers_noexcept(st, env, query, filters) ==
    IF ~env.up THEN [raised |-> TRUE, offers |-> <<>>]
    ELSE [raised |-> FALSE,
          offers |-> IF query # <<>> /\ Strip(query) # <<>>
                     THEN qdrant_search(st,
                            get_embedding(Lower(Strip(query)), env.api_key, env.backend_ok),
                            IF filters.merchant_id = <<>> THEN None ELSE Some(filters.merchant_id),
                            IF filters.labels = <<>> THEN None ELSE Some(filters.labels),
                            filters.limit, filters.offset)
                     ELSE qdrant_scroll(st,
                            IF filters.merchant_id = <<>> THEN None ELSE Some(filters.merchant_id),
                            IF filters.labels = <<>> THEN None ELSE Some(filters.labels),
                            filters.limit, filters.offset)]

\* search_offers whose scroll path leaves the filter out
OfferRegistry_search_offers_unfiltered_scroll(st, env, query, filters) ==
    IF query # <<>> /\ Strip(query) # <<>>
    THEN OfferRegistry_search_offers_noexcept(
             st, [env EXCEPT !.up = TRUE], query,
             [filters EXCEPT !.limit = IF env.up THEN filters.limit ELSE 0])
    ELSE IF ~env.up THEN [raised |-> FALSE, offers |-> <<>>]
         ELSE [raised |-> FALSE,
               offers |-> qdrant_scroll(st, None, None, filters.limit, filters.offset)]

\* filters is the dict the caller passes; env holds what the call meets:
\* whether the store answers, the process's api key, whether the embedding
\* backend answers.  An exception inside the try block gives [].
OfferRegistry_search_offers(st, env, query, filters) ==
    LET merchant_id == IF filters.merchant_id = <<>> THEN None
                       ELSE Some(filters.merchant_id)
        labels == IF filters.labels = <<>> THEN None ELSE Some(filters.labels)
    IN  IF query # <<>> /\ Strip(query) # <<>>
        THEN LET search_text == Lower(Strip(query))
                 query_embedding == get_embedding(search_text, env.api_key, env.backend_ok)
             IN  IF ~env.up THEN [raised |-> FALSE, offers |-> <<>>]
                 ELSE [raised |-> FALSE,
                       offers |-> qdrant_search(st, query_embedding, merchant_id, labels,
                                                filters.limit, filters.offset)]
        ELSE IF ~env.up THEN [raised |-> FALSE, offers |-> <<>>]
             ELSE [raised |-> FALSE,
                   offers |-> qdrant_scroll(st, merchant_id, labels,
                                            filters.limit, filters.offset)]

EmptyResponse(params, error) ==
    [raised |-> FALSE, offers |-> <<>>, total |-> 0,
     limit |-> params.limit, offset |-> params.offset, error |-> error]

\* the response dict, and next to it base_results and the ranking
SearchService_search_offers(st, env, params) ==
    LET base == OfferRegistry_search_offers(st, env, params.query,
                    [merchant_id |-> <<>>, labels |-> params.labels,
                     limit |-> params.limit * 2, offset |-> params.offset])
    IN  IF base.raised
        THEN [response |-> EmptyResponse(params, TRUE), registry_raised |-> TRUE,
              base_results |-> <<>>, ranked |-> Raised]
        ELSE IF base.offers = <<>>
        THEN [response |-> EmptyResponse(params, FALSE), registry_raised |-> FALSE,
              base_results |-> <<>>,
              ranked |-> [raised |-> FALSE, scored |-> <<>>, offers |-> <<>>]]
        ELSE LET ranked_results == apply_hybrid_ranking(base.offers, params)
             IN  IF ranked_results.raised
                 THEN [response |-> EmptyResponse(params, TRUE), registry_raised |-> FALSE,
                       base_results |-> base.offers, ranked |-> Raised]
                 ELSE [response |->
                          [raised |-> FALSE,
                           offers |-> Slice(ranked_results.offers, params.offset, params.limit),
                           total |-> Len(ranked_results.offers),
                           limit |-> params.limit, offset |-> params.offset,
                           error |-> FALSE],
                       registry_raised |-> FALSE,
                       base_results |-> base.offers, ranked |-> ranked_results]

----------------------------------------------------------------------------
(* The registry processes and index_offer *)

\* the API server (gor/main.py) and the stand-alone ingestion script
\* (ingest_offers.py): two interpreters over one collection
Procs == {"api", "script"}

\* two values the interpreter may draw for its hash secret
Secrets == {0, 1}

CallIds == {"c1", "c2"}

IngestDocs == {D1, D1r}

PairOf(offer) == <<offer.merchant.id, offer.offer_id>>
Pairs == {PairOf(d) : d \in IngestDocs}

\* VectorParams(size=1536, distance=Distance.COSINE)
CollectionConfig == [size |-> EmbeddingDim, distance |-> "Cosine"]

EmptyStore == [id \in {} |-> id]
Idle == [pc |-> "idle"]

\* the points of the collection whose payload names the pair
PointsOfPair(st, pair) ==
    {id \in DOMAIN st :
        st[id].payload.merchant_id = pair[1] /\ st[id].payload.offer_id = pair[2]}

\* index_offer, lines 121-122: derive the search text and await its embedding
IndexBegin(c, p, offer, backend_ok) ==
    /\ calls[c].pc # "embedded"
    /\ LET search_text == generate_search_text(offer)
       IN  calls' = [calls EXCEPT ![c] =
                [pc |-> "embedded", proc |-> p, offer |-> offer,
                 search_text |-> search_text,
                 embedding |-> get_embedding(search_text, procs[p].api_key, backend_ok)]]
    /\ UNCHANGED <<coll, store, up, procs, sreq, sresp, ranking, sin, sout>>

\* index_offer, lines 125-167: point id, payload, upsert; an unreachable
\* store makes upsert raise and index_offer re-raises
IndexUpsert(c) ==
    /\ calls[c].pc = "embedded"
    /\ LET call == calls[c]
           point == PointStruct(procs[call.proc].secret, call.offer,
                                call.search_text, call.embedding)
       IN  IF up
           THEN /\ store' = Upsert(store, point)
                /\ calls' = [calls EXCEPT ![c].pc = "returned"]
           ELSE /\ calls' = [calls EXCEPT ![c] = [pc |-> "raised"]]
                /\ UNCHANGED store
    /\ UNCHANGED <<coll, up, procs, sreq, sresp, ranking, sin, sout>>

\* a process ends and a new interpreter starts (uvicorn reload, a new run of
\* the script): new hash secret, same environment, its coroutines are gone
Restart(p, secret) ==
    /\ procs' = [procs EXCEPT ![p].secret = secret]
    /\ calls' = [c \in CallIds |->
                    IF calls[c].pc = "embedded" /\ calls[c].proc = p THEN Idle ELSE calls[c]]
    /\ UNCHANGED <<coll, store, up, sreq, sresp, ranking, sin, sout>>

StoreDown ==
    /\ up
    /\ up' = FALSE
    /\ UNCHANGED <<coll, store, procs, calls, sreq, sresp, ranking, sin, sout>>

StoreUp ==
    /\ ~up
    /\ up' = TRUE
    /\ UNCHANGED <<coll, store, procs, calls, sreq, sresp, ranking, sin, sout>>

NoRequest == [kind |-> "none"]

Init ==
    /\ coll = Some(CollectionConfig)
    /\ store = EmptyStore
    /\ up = TRUE
    /\ procs \in {[p \in Procs |-> [secret |-> f[p], api_key |-> k]] :
                    f \in [Procs -> Secrets], k \in BOOLEAN}
    /\ calls = [c \in CallIds |-> Idle]
    /\ sreq = NoRequest
    /\ sresp = NoRequest
    /\ ranking = NoRequest
    /\ sin = NoRequest
    /\ sout = NoRequest

Next ==
    \/ \E c \in CallIds, p \in Procs, offer \in IngestDocs, backend_ok \in BOOLEAN :
          IndexBegin(c, p, offer, backend_ok)
    \/ \E c \in CallIds : IndexUpsert(c)
    \/ \E p \in Procs, secret \in Secrets : Restart(p, secret)
    \/ StoreDown
    \/ StoreUp

Spec == Init /\ [][Next]_vars

----------------------------------------------------------------------------
(* main.py: the HTTP handlers over gor_service = OfferRegistry() *)

\* Offer(offer_id=raw_offer.get("offer_id"), ..., expires_at=...): the fields
\* the handlers copy; "merchant" is no key of a payload, so it is None.
\* Every field is Optional except offer_id; expires_at must parse as a
\* datetime, so a malformed string fails validation.
OfferModel(raw_offer) ==
    IF raw_offer.expires_at.kind = "str" /\ raw_offer.expires_at.form = "bad"
    THEN Raised
    ELSE Value([offer_id |-> raw_offer.offer_id,
                title |-> raw_offer.title,
                description |-> raw_offer.description,
                content |-> raw_offer.content,
                terms |-> raw_offer.terms,
                bounty |-> raw_offer.bounty,
                merchant |-> None,
                labels |-> raw_offer.labels,
                created_at |-> raw_offer.created_at,
                updated_at |-> raw_offer.updated_at,
                expires_at |-> raw_offer.expires_at])

RECURSIVE ParsedOffers(_)
ParsedOffers(raw_results) ==
    IF raw_results = <<>> THEN <<>>
    ELSE IF OfferModel(Head(raw_results)).raised THEN ParsedOffers(Tail(raw_results))
    ELSE <<Head(raw_results)>> \o ParsedOffers(Tail(raw_results))

\* GET /offers, lines 56-136: the registry's results in the registry's order,
\* each converted to an Offer, those that fail the conversion skipped.
\* parsed is the raw results whose conversion succeeded.
main_search_offers(st, env, params) ==
    LET raw_results == OfferRegistry_search_offers(st, env, Strip(params.query),
                           [merchant_id |-> <<>>, labels |-> params.labels,
                            limit |-> params.limit, offset |-> params.offset]).offers
        parsed == ParsedOffers(raw_results)
    IN  [status |-> 200, success |-> TRUE,
         raw_results |-> raw_results, parsed |-> parsed,
         offers |-> [i \in 1..Len(parsed) |-> OfferModel(parsed[i]).value],
         total |-> Len(parsed), limit |-> params.limit, offset |-> params.offset,
         ranking_method |-> "hybrid_semantic_geo_time"]

----------------------------------------------------------------------------
(* Searching a populated collection *)

\* the feed the collection was ingested from: (m1, o1) first in its old
\* revision, last in its new one
SearchDocs == <<D1, D2, D3, D4, D5, D6, D7, D1r>>

\* the collection after one process has indexed docs in order
RECURSIVE IndexAll(_, _, _)
IndexAll(secret, api_key, docs) ==
    IF docs = <<>> THEN EmptyStore
    ELSE LET offer == Last(docs)
             search_text == generate_search_text(offer)
         IN  Upsert(IndexAll(secret, api_key, Front(docs)),
                    PointStruct(secret, offer, search_text,
                                get_embedding(search_text, api_key, TRUE)))

MaxLimit == 2
MaxOffset == 2

Queries == {S_empty, S_space, S_pizza, S_Pizza, S_thai}
QueryLocations == {<<None, None>>, <<Some(0), Some(1)>>, <<Some(1), Some(1)>>}
Radii == {0, MetresPerMilliDegree, 300, -100}
LabelFilters == {<<>>, <<S_pizza>>}

\* SearchParams, with the clock and the fate of the embedding call
Requests ==
    {[kind |-> "search", query |-> q, lat |-> loc[1], lng |-> loc[2], radius_m |-> r,
      labels |-> ls, limit |-> limit, offset |-> offset, now |-> Now0,
      backend_ok |-> ok, up |-> FALSE] :
        q \in Queries, loc \in QueryLocations, r \in Radii, ls \in LabelFilters,
        limit \in 1..MaxLimit, offset \in 0..MaxOffset, ok \in BOOLEAN}

EnvOf(req) ==
    [up |-> req.up, api_key |-> procs["api"].api_key, backend_ok |-> req.backend_ok]

\* SearchService.search_offers(search_params), served by the API process
Search ==
    /\ sreq.kind = "search"
    /\ sresp = NoRequest
    /\ \E out \in {SearchService_search_offers(
                        store, [EnvOf(sreq) EXCEPT !.up = up], sreq)} :
          /\ sreq' = [sreq EXCEPT !.up = up]
          /\ sresp' = [kind |-> "response"] @@ out.response
          /\ ranking' = [kind |-> "ranking", registry_raised |-> out.registry_raised,
                         base_results |-> out.base_results, ranked |-> out.ranked]
    /\ UNCHANGED <<coll, store, up, procs, calls, sin, sout>>

\* GET /offers with the request's parameters, served by the API process
GetOffers ==
    /\ sreq.kind = "search"
    /\ sresp = NoRequest
    /\ \E out \in {main_search_offers(store, [EnvOf(sreq) EXCEPT !.up = up], sreq)} :
          /\ sreq' = [sreq EXCEPT !.up = up]
          /\ sresp' = [kind |-> "http", status |-> out.status, success |-> out.success,
                       offers |-> out.offers, total |-> out.total,
                       limit |-> out.limit, offset |-> out.offset,
                       ranking_method |-> out.ranking_method]
          /\ ranking' = [kind |-> "raw", raw_results |-> out.raw_results,
                         parsed |-> out.parsed]
    /\ UNCHANGED <<coll, store, up, procs, calls, sin, sout>>

InitSearch ==
    /\ coll = Some(CollectionConfig)
    /\ \E secret \in Secrets, api_key \in BOOLEAN :
          /\ store = IndexAll(secret, api_key, SearchDocs)
          /\ procs = [p \in Procs |-> [secret |-> secret, api_key |-> api_key]]
    /\ up \in BOOLEAN
    /\ calls = [c \in CallIds |-> Idle]
    /\ sreq \in Requests
    /\ sresp = NoRequest
    /\ ranking = NoRequest
    /\ sin = NoRequest
    /\ sout = NoRequest

NextSearch ==
    \/ Search
    \/ GetOffers
    \/ StoreDown
    \/ StoreUp

SpecSearch == InitSearch /\ [][NextSearch]_vars

----------------------------------------------------------------------------
(* Scoring one candidate *)

OfferLocations ==
    {Location(None, None), Location(Some(0), Some(1)), Location(Some(1), Some(1)),
     Location(Some(1), Some(2)), Location(Some(1), Some(3)), Location(Some(3), Some(1))}

\* instants around the clock: an hour ago, two days ago, now, 3, 20, 60 and
\* 200 days ahead, and the last day of each freshness bucket
ExpiryInstants ==
    {Now0 - 1, Now0 - 2 * DayHours, Now0, Now0 + 3 * DayHours, Now0 + 20 * DayHours,
     Now0 + 60 * DayHours, Now0 + 200 * DayHours,
     Now0 + 7 * DayHours + 23, Now0 + 30 * DayHours, Now0 + 90 * DayHours,
     Now0 + 91 * DayHours}

\* every form expires_at can take, for every instant
Expirations ==
    {ExpNone, ExpStr("bad", 0, 0)}
    \cup {ExpStr("Z", t, 0) : t \in ExpiryInstants}
    \cup {ExpStr("offset", t + 2, 2) : t \in ExpiryInstants}
    \cup {ExpStr("naive", t, 0) : t \in ExpiryInstants}
    \cup {ExpDt(TRUE, t + 2, 2) : t \in ExpiryInstants}
    \cup {ExpDt(FALSE, t, 0) : t \in ExpiryInstants}

ScoreQueries == {S_empty, S_pizza, S_Pizza}

ScoreInputs ==
    {[kind |-> "score",
      offer |-> Payload(OfferDoc(S_o1, S_m1, S_Otto, S_Pizza, S_hot, <<S_pizza>>,
                                 loc, exp, "terms"),
                        generate_search_text(OfferDoc(S_o1, S_m1, S_Otto, S_Pizza, S_hot,
                                                      <<S_pizza>>, loc, exp, "terms"))),
      query |-> q, lat |-> qloc[1], lng |-> qloc[2], radius_m |-> r, now |-> Now0] :
        loc \in OfferLocations, exp \in Expirations, q \in ScoreQueries,
        qloc \in QueryLocations, r \in Radii}

\* the three score functions and the loop body of apply_hybrid_ranking on sin
Score ==
    /\ sin.kind = "score"
    /\ sout = NoRequest
    /\ sout' = [kind |-> "scores",
                semantic |-> calculate_semantic_score(sin.offer, sin.query),
                geo |-> calculate_geo_score(sin.offer, sin.lat, sin.lng, sin.radius_m),
                time |-> calculate_time_score(sin.offer, sin.now),
                entry |-> ScoreOffer(sin.offer, sin)]
    /\ UNCHANGED <<coll, store, up, procs, calls, sreq, sresp, ranking, sin>>

InitScore ==
    /\ coll = Some(CollectionConfig)
    /\ store = EmptyStore
    /\ up = TRUE
    /\ procs = [p \in Procs |-> [secret |-> 0, api_key |-> FALSE]]
    /\ calls = [c \in CallIds |-> Idle]
    /\ sreq = NoRequest
    /\ sresp = NoRequest
    /\ ranking = NoRequest
    /\ sin \in ScoreInputs
    /\ sout = NoRequest

NextScore == Score

SpecScore == InitScore /\ [][NextScore]_vars

----------------------------------------------------------------------------
(* OfferRegistry.get_offer_by_id *)

\* qdrant.retrieve(ids=[point_id]): the points with these ids
qdrant_retrieve(st, point_id) ==
    IF point_id \in DOMAIN st THEN <<st[point_id]>> ELSE <<>>

\* a scroll that leaves the offer_id filter out
qdrant_scroll_by_offer_id_unfiltered(st, offer_id) ==
    LET ids == AscendingIds(DOMAIN st)
        page == Slice(ids, 0, 1)
    IN  [i \in 1..Len(page) |-> st[page[i]].payload]

\* qdrant.scroll(scroll_filter=Filter(must=[offer_id = value]), limit=1)
qdrant_scroll_by_offer_id(st, offer_id) ==
    LET ids == AscendingIds({id \in DOMAIN st : st[id].payload.offer_id = offer_id})
        page == Slice(ids, 0, 1)
    IN  [i \in 1..Len(page) |-> st[page[i]].payload]

\* lines 198-241: the payload found, or None; secret is the hash secret of
\* the process that serves the call, is_up whether the store answers it
OfferRegistry_get_offer_by_id(st, is_up, secret, offer_id) ==
    IF ~is_up THEN None
    ELSE IF /\ Contains(offer_id, S_underscore)
            /\ qdrant_retrieve(st, point_id_of(secret, offer_id)) # <<>>
    THEN Some(qdrant_retrieve(st, point_id_of(secret, offer_id))[1].payload)
    ELSE IF qdrant_scroll_by_offer_id(st, offer_id) # <<>>
    THEN Some(qdrant_scroll_by_offer_id(st, offer_id)[1])
    ELSE None

S_o9 == <<"o", "9">>

\* bare offer ids and merchant-qualified ids, of indexed offers and of none
LookupIds ==
    {S_o1, S_o2, S_o3, S_o9} \cup
    {unique_id_of(m, o) : m \in {S_m1, S_m2, S_m3}, o \in {S_o1, S_o3, S_o9}}

\* main.py get_offer, lines 138-174, on what get_offer_by_id returned: 404
\* for a falsy result; 500 when the conversion to Offer fails ("except
\* Exception"); else the Offer with success
get_offer(raw_offer) ==
    IF raw_offer = None
    THEN [status |-> 404, success |-> FALSE, offer |-> None]
    ELSE IF OfferModel(raw_offer[1]).raised
    THEN [status |-> 500, success |-> FALSE, offer |-> None]
    ELSE [status |-> 200, success |-> TRUE, offer |-> Some(OfferModel(raw_offer[1]).value)]

\* GET /offers/{offer_id}: the API process looks the id up and answers
GetOffer ==
    /\ sreq.kind = "get"
    /\ sresp = NoRequest
    /\ sreq' = [sreq EXCEPT !.up = up]
    /\ \E found \in {OfferRegistry_get_offer_by_id(
                          store, up, procs["api"].secret, sreq.offer_id)} :
          sresp' = [kind |-> "offer", found |-> found, http |-> get_offer(found)]
    /\ UNCHANGED <<coll, store, up, procs, calls, ranking, sin, sout>>

\* the collection as the ingestion script filled it, and the API process
InitGet ==
    /\ coll = Some(CollectionConfig)
    /\ procs \in {[p \in Procs |-> [secret |-> f[p], api_key |-> FALSE]] :
                    f \in [Procs -> Secrets]}
    /\ store = IndexAll(procs["script"].secret, FALSE, SearchDocs)
    /\ up \in BOOLEAN
    /\ calls = [c \in CallIds |-> Idle]
    /\ sreq \in {[kind |-> "get", offer_id |-> x, up |-> FALSE] : x \in LookupIds}
    /\ sresp = NoRequest
    /\ ranking = NoRequest
    /\ sin = NoRequest
    /\ sout = NoRequest

NextGet ==
    \/ GetOffer
    \/ StoreDown
    \/ StoreUp

SpecGet == InitGet /\ [][NextGet]_vars

----------------------------------------------------------------------------
(* The embedding adapters: VectorSearchService (acp_sdk), whose             *)
(* get_embedding and _generate_mock_embedding are defined above, and        *)
(* EmbeddingService (gor).  sin is the call's input, sout[p] what process p *)
(* answered.                                                               *)

\* VectorSearchService.get_embeddings_batch: one backend call for the list,
\* any failure gives the fallback of every text
get_embeddings_batch(texts, api_key, backend_ok) ==
    IF api_key /\ backend_ok
    THEN [i \in 1..Len(texts) |-> OpenAIEmbedding(texts[i])]
    ELSE [i \in 1..Len(texts) |-> _generate_mock_embedding(texts[i])]

\* EmbeddingService._generate_mock_embedding: md5 of "<md5 of text>_<i>" per
\* component, centred on 0 and scaled to a unit vector
EmbeddingService_generate_mock_embedding(text) ==
    [dim |-> EmbeddingDim, origin |-> "mock-unit",
     dir |-> <<1 + (StrCode(text) % 2), -(1 + ((StrCode(text) \div 2) % 2))>>]

\* EmbeddingService.get_embedding: use_mock is "no OPENAI_API_KEY"
EmbeddingService_get_embedding(text, api_key, backend_ok) ==
    IF ~api_key THEN EmbeddingService_generate_mock_embedding(text)
    ELSE IF backend_ok THEN OpenAIEmbedding(text)
    ELSE EmbeddingService_generate_mock_embedding(text)

EmbeddingService_get_embeddings_batch(texts, api_key, backend_ok) ==
    IF api_key /\ backend_ok
    THEN [i \in 1..Len(texts) |-> OpenAIEmbedding(texts[i])]
    ELSE [i \in 1..Len(texts) |-> EmbeddingService_generate_mock_embedding(texts[i])]

\* sum(a * b for a, b in zip(e1, e2)) over the first n components
RECURSIVE ZipDot(_, _, _)
ZipDot(e1, e2, n) == IF n = 0 THEN 0 ELSE e1[n] * e2[n] + ZipDot(e1, e2, n - 1)

\* dot_product / (mag1 * mag2), kept exact as the cosine's square with the
\* cosine's sign
Cosine(e1, e2) ==
    LET dot == ZipDot(e1, e2, Len(e1))
    IN  Rat((IF dot < 0 THEN -1 ELSE 1) * dot * dot,
            ZipDot(e1, e1, Len(e1)) * ZipDot(e2, e2, Len(e2)))

\* VectorSearchService.calculate_similarity: the ValueError of line 111 is
\* caught by the except clause, which returns 0.0
calculate_similarity(e1, e2) ==
    IF Len(e1) # Len(e2) THEN Value(RZero)
    ELSE IF ZipDot(e1, e1, Len(e1)) = 0 \/ ZipDot(e2, e2, Len(e2)) = 0 THEN Value(RZero)
    ELSE Value(Cosine(e1, e2))

\* EmbeddingService.calculate_similarity: no except clause
EmbeddingService_calculate_similarity(e1, e2) ==
    IF Len(e1) # Len(e2) THEN Raised
    ELSE IF ZipDot(e1, e1, Len(e1)) = 0 \/ ZipDot(e2, e2, Len(e2)) = 0 THEN Value(RZero)
    ELSE Value(Cosine(e1, e2))

MaxTexts == 2

EmbedTexts == {S_empty, S_space, S_pizza}

\* vectors of floats: empty, of zero magnitude, of two and of three components
FloatLists == {<<>>, <<0, 0>>, <<1, 0>>, <<1, 1>>, <<-1, 1>>, <<1, 0, 2>>}

EmbedInputs ==
    {[kind |-> "texts", texts |-> ts] :
        ts \in UNION {[1..n -> EmbedTexts] : n \in 0..MaxTexts}}
    \cup {[kind |-> "vectors", e1 |-> a, e2 |-> b] : a \in FloatLists, b \in FloatLists}

\* process p embeds the texts one by one and as a batch, with both adapters;
\* backend_ok is the fate of its calls to the embedding backend
Embed(p, backend_ok) ==
    /\ sin.kind = "texts"
    /\ sout[p].kind = "none"
    /\ sout' = [sout EXCEPT ![p] =
          [kind |-> "embeddings", api_key |-> procs[p].api_key, backend_ok |-> backend_ok,
           fallback |-> [i \in 1..Len(sin.texts) |-> _generate_mock_embedding(sin.texts[i])],
           single |-> [i \in 1..Len(sin.texts) |->
                          get_embedding(sin.texts[i], procs[p].api_key, backend_ok)],
           batch |-> get_embeddings_batch(sin.texts, procs[p].api_key, backend_ok),
           es_fallback |-> [i \in 1..Len(sin.texts) |->
                          EmbeddingService_generate_mock_embedding(sin.texts[i])],
           es_single |-> [i \in 1..Len(sin.texts) |->
                          EmbeddingService_get_embedding(sin.texts[i], procs[p].api_key,
                                                         backend_ok)],
           es_batch |-> EmbeddingService_get_embeddings_batch(sin.texts, procs[p].api_key,
                                                              backend_ok)]]
    /\ UNCHANGED <<coll, store, up, procs, calls, sreq, sresp, ranking, sin>>

\* process p compares the two vectors with both adapters
Similarity(p) ==
    /\ sin.kind = "vectors"
    /\ sout[p].kind = "none"
    /\ sout' = [sout EXCEPT ![p] =
          [kind |-> "similarity",
           similarity |-> calculate_similarity(sin.e1, sin.e2),
           es_similarity |-> EmbeddingService_calculate_similarity(sin.e1, sin.e2)]]
    /\ UNCHANGED <<coll, store, up, procs, calls, sreq, sresp, ranking, sin>>

InitEmbed ==
    /\ coll = Some(CollectionConfig)
    /\ store = EmptyStore
    /\ up = TRUE
    /\ procs \in {[p \in Procs |-> [secret |-> IF p = "api" THEN 0 ELSE 1,
                                      api_key |-> k[p]]] : k \in [Procs -> BOOLEAN]}
    /\ calls = [c \in CallIds |-> Idle]
    /\ sreq = NoRequest
    /\ sresp = NoRequest
    /\ ranking = NoRequest
    /\ sin \in EmbedInputs
    /\ sout = [p \in Procs |-> NoRequest]

NextEmbed ==
    \/ \E p \in Procs, backend_ok \in BOOLEAN : Embed(p, backend_ok)
    \/ \E p \in Procs : Similarity(p)

SpecEmbed == InitEmbed /\ [][NextEmbed]_vars

----------------------------------------------------------------------------
(* Start-up: ensure_collection, run by every registry process that starts. *)
(* Its two requests to the server are not one step of the server: another  *)
(* process's requests may come between them.  Within one process nothing   *)
(* is awaited between the two.                                             *)

\* lines 44-45: get_collections and the test for the name; an unreachable
\* server makes the request raise and ensure_collection re-raises
EnsureList(c, p) ==
    /\ calls[c].pc \in {"idle", "ensured", "failed"}
    /\ \A o \in CallIds : ~(calls[o].pc = "listed" /\ calls[o].proc = p)
    /\ calls' = [calls EXCEPT ![c] =
            IF up THEN [pc |-> "listed", proc |-> p, exists |-> coll # None]
            ELSE [pc |-> "failed", proc |-> p, error |-> "unreachable"]]
    /\ UNCHANGED <<coll, store, up, procs, sreq, sresp, ranking, sin, sout>>

\* lines 47-61: create_collection when the name was not listed; the server
\* refuses to create a collection that exists, and the error is re-raised
EnsureCreate(c) ==
    /\ calls[c].pc = "listed"
    /\ IF calls[c].exists
       THEN /\ calls' = [calls EXCEPT ![c] = [pc |-> "ensured", proc |-> calls[c].proc]]
            /\ UNCHANGED coll
       ELSE IF ~up
       THEN /\ calls' = [calls EXCEPT ![c] =
                    [pc |-> "failed", proc |-> calls[c].proc, error |-> "unreachable"]]
            /\ UNCHANGED coll
       ELSE IF coll # None
       THEN /\ calls' = [calls EXCEPT ![c] =
                    [pc |-> "failed", proc |-> calls[c].proc, error |-> "exists"]]
            /\ UNCHANGED coll
       ELSE /\ calls' = [calls EXCEPT ![c] = [pc |-> "ensured", proc |-> calls[c].proc]]
            /\ coll' = Some(CollectionConfig)
    /\ UNCHANGED <<store, up, procs, sreq, sresp, ranking, sin, sout>>

\* the server when the processes start: no collection yet, or the collection
\* of an earlier run with or without points
InitStartup ==
    /\ \E docs \in {<<>>, <<D1, D2>>} :
          \/ coll = None /\ docs = <<>> /\ store = EmptyStore
          \/ coll = Some(CollectionConfig) /\ store = IndexAll(0, FALSE, docs)
    /\ up = TRUE
    /\ procs \in {[p \in Procs |-> [secret |-> f[p], api_key |-> FALSE]] :
                    f \in [Procs -> Secrets]}
    /\ calls = [c \in CallIds |-> Idle]
    /\ sreq = NoRequest
    /\ sresp = NoRequest
    /\ ranking = NoRequest
    /\ sin = NoRequest
    /\ sout = NoRequest

NextStartup ==
    \/ \E c \in CallIds, p \in Procs : EnsureList(c, p)
    \/ \E c \in CallIds : EnsureCreate(c)
    \/ StoreDown
    \/ StoreUp

SpecStartup == InitStartup /\ [][NextStartup]_vars

----------------------------------------------------------------------------
(* ingest_offers.  The ingestion source is sreq: whether GET /merchants     *)
(* answers, and per merchant whether its feed (OSF) answers and, per offer  *)
(* reference of the feed, the document and whether fetching it succeeds.    *)

OfferRef(doc, fetch_ok) == [doc |-> doc, fetch_ok |-> fetch_ok]
Merchant(id, osf_ok, offers) == [id |-> id, osf_ok |-> osf_ok, offers |-> offers]

\* two merchants, the first with two offers and the second with one, and
\* every way the requests to the source can fail
Sources ==
    {[kind |-> "source", list_ok |-> l,
      merchants |-> << Merchant(S_m2, a, <<OfferRef(D2, x), OfferRef(D3, y)>>),
                       Merchant(S_m3, b, <<OfferRef(D5, z)>>) >>] :
        l \in BOOLEAN, a \in BOOLEAN, b \in BOOLEAN,
        x \in BOOLEAN, y \in BOOLEAN, z \in BOOLEAN}

\* lines 68-77: GET /merchants is outside the per-merchant try: its failure
\* is re-raised by the outer except clause
IngestBegin(c, p) ==
    /\ sreq.kind = "source"
    /\ calls[c].pc = "idle"
    /\ \A o \in CallIds : calls[o].pc # "ingesting"
    /\ calls' = [calls EXCEPT ![c] =
            IF sreq.list_ok
            THEN [pc |-> "ingesting", proc |-> p, m |-> 1, o |-> 0,
                  total |-> 0, ingested |-> 0, log |-> <<>>]
            ELSE [pc |-> "raised"]]
    /\ UNCHANGED <<coll, store, up, procs, sreq, sresp, ranking, sin, sout>>

\* lines 79-91 and 107-108: fetch the merchant's feed; a failure is logged
\* and the loop goes on with the next merchant
IngestFeed(c) ==
    /\ calls[c].pc = "ingesting"
    /\ calls[c].o = 0
    /\ calls[c].m <= Len(sreq.merchants)
    /\ calls' = [calls EXCEPT ![c] =
            IF sreq.merchants[calls[c].m].osf_ok
            THEN [calls[c] EXCEPT !.o = 1]
            ELSE [calls[c] EXCEPT !.m = @ + 1]]
    /\ UNCHANGED <<coll, store, up, procs, sreq, sresp, ranking, sin, sout>>

\* the merchant loop without the inner try: a failing offer ends the
\* merchant's offers
IngestOffer_abort(c, backend_ok) ==
    /\ calls[c].pc = "ingesting"
    /\ calls[c].o >= 1
    /\ LET call == calls[c]
           offers == sreq.merchants[call.m].offers
           ref == offers[call.o]
           last == call.o = Len(offers)
           search_text == generate_search_text(ref.doc)
           outcome == IF ~ref.fetch_ok THEN "fetch_failed"
                      ELSE IF ~up THEN "index_failed" ELSE "indexed"
       IN  /\ store' = IF outcome = "indexed"
                       THEN Upsert(store, PointStruct(procs[call.proc].secret, ref.doc,
                                search_text,
                                get_embedding(search_text, procs[call.proc].api_key,
                                              backend_ok)))
                       ELSE store
           /\ calls' = [calls EXCEPT ![c] =
                  [call EXCEPT
                     !.log = Append(@, [m |-> call.m, o |-> call.o, outcome |-> outcome]),
                     !.ingested = IF outcome = "indexed" THEN @ + 1 ELSE @,
                     !.total = IF last /\ outcome = "indexed" THEN @ + Len(offers) ELSE @,
                     !.m = IF last \/ outcome # "indexed" THEN @ + 1 ELSE @,
                     !.o = IF last \/ outcome # "indexed" THEN 0 ELSE @ + 1]]
    /\ UNCHANGED <<coll, up, procs, sreq, sresp, ranking, sin, sout>>

\* the loop counting in total only the offers it indexed
IngestOffer_count_indexed(c, backend_ok) ==
    /\ calls[c].pc = "ingesting"
    /\ calls[c].o >= 1
    /\ LET call == calls[c]
           offers == sreq.merchants[call.m].offers
           ref == offers[call.o]
           last == call.o = Len(offers)
           search_text == generate_search_text(ref.doc)
           outcome == IF ~ref.fetch_ok THEN "fetch_failed"
                      ELSE IF ~up THEN "index_failed" ELSE "indexed"
       IN  /\ store' = IF outcome = "indexed"
                       THEN Upsert(store, PointStruct(procs[call.proc].secret, ref.doc,
                                search_text,
                                get_embedding(search_text, procs[call.proc].api_key,
                                              backend_ok)))
                       ELSE store
           /\ calls' = [calls EXCEPT ![c] =
                  [call EXCEPT
                     !.log = Append(@, [m |-> call.m, o |-> call.o, outcome |-> outcome]),
                     !.ingested = IF outcome = "indexed" THEN @ + 1 ELSE @,
                     !.total = IF outcome = "indexed" THEN @ + 1 ELSE @,
                     !.m = IF last THEN @ + 1 ELSE @,
                     !.o = IF last THEN 0 ELSE @ + 1]]
    /\ UNCHANGED <<coll, up, procs, sreq, sresp, ranking, sin, sout>>

\* lines 91-106: one offer reference: fetch the document, index_offer it
\* (embedding, then upsert), count it; a failure of either is logged and the
\* loop goes on; after the merchant's last reference total grows by their
\* number
IngestOffer(c, backend_ok) ==
    /\ calls[c].pc = "ingesting"
    /\ calls[c].o >= 1
    /\ LET call == calls[c]
           offers == sreq.merchants[call.m].offers
           ref == offers[call.o]
           last == call.o = Len(offers)
           search_text == generate_search_text(ref.doc)
           outcome == IF ~ref.fetch_ok THEN "fetch_failed"
                      ELSE IF ~up THEN "index_failed" ELSE "indexed"
       IN  /\ store' = IF outcome = "indexed"
                       THEN Upsert(store, PointStruct(procs[call.proc].secret, ref.doc,
                                search_text,
                                get_embedding(search_text, procs[call.proc].api_key,
                                              backend_ok)))
                       ELSE store
           /\ calls' = [calls EXCEPT ![c] =
                  [call EXCEPT
                     !.log = Append(@, [m |-> call.m, o |-> call.o, outcome |-> outcome]),
                     !.ingested = IF outcome = "indexed" THEN @ + 1 ELSE @,
                     !.total = IF last THEN @ + Len(offers) ELSE @,
                     !.m = IF last THEN @ + 1 ELSE @,
                     !.o = IF last THEN 0 ELSE @ + 1]]
    /\ UNCHANGED <<coll, up, procs, sreq, sresp, ranking, sin, sout>>

\* lines 110-111: return {"total": total_offers, "ingested": ingested_offers}
IngestReturn(c) ==
    /\ calls[c].pc = "ingesting"
    /\ calls[c].m > Len(sreq.merchants)
    /\ calls' = [calls EXCEPT ![c].pc = "returned"]
    /\ sresp' = [kind |-> "counts", total |-> calls[c].total,
                 ingested |-> calls[c].ingested]
    /\ UNCHANGED <<coll, store, up, procs, sreq, ranking, sin, sout>>

InitIngest ==
    /\ coll = Some(CollectionConfig)
    /\ store = EmptyStore
    /\ up \in BOOLEAN
    /\ procs \in {[p \in Procs |-> [secret |-> 0, api_key |-> k]] : k \in BOOLEAN}
    /\ calls = [c \in CallIds |-> Idle]
    /\ sreq \in Sources
    /\ sresp = NoRequest
    /\ ranking = NoRequest
    /\ sin = NoRequest
    /\ sout = NoRequest

NextIngest ==
    \/ \E c \in CallIds, p \in Procs : IngestBegin(c, p)
    \/ \E c \in CallIds : IngestFeed(c)
    \/ \E c \in CallIds, backend_ok \in BOOLEAN : IngestOffer(c, backend_ok)
    \/ \E c \in CallIds : IngestReturn(c)
    \/ StoreDown
    \/ StoreUp

SpecIngest == InitIngest /\ [][NextIngest]_vars

----------------------------------------------------------------------------
(* The registry's operations on one collection: the reads search_offers,   *)
(* get_offer_by_id, get_offers_by_merchant and get_registry_stats, and     *)
(* index_offer between them.  sreq is the last read and the store's state  *)
(* when it was served, sresp its result.                                   *)

\* lines 243-262: scroll on merchant_id, limit=100; [] when the store fails
get_offers_by_merchant(st, is_up, merchant_id) ==
    IF ~is_up THEN <<>>
    ELSE LET ids == AscendingIds({id \in DOMAIN st :
                                    st[id].payload.merchant_id = merchant_id})
             page == Slice(ids, 0, 100)
         IN  [i \in 1..Len(page) |-> st[page[i]].payload]

\* lines 264-278: the collection's info, or {"error": ...}
get_registry_stats(st, c, is_up) ==
    IF ~is_up \/ c = None THEN [error |-> TRUE]
    ELSE [error |-> FALSE, total_offers |-> Cardinality(DOMAIN st),
          vector_size |-> c[1].size, distance_metric |-> c[1].distance]

\* two offers of different merchants whose merchant id and offer id
\* concatenate to the same string: ("m", "1_o1") and ("m_1", "o1")
D8 == OfferDoc(<<"1", "_", "o", "1">>, <<"m">>, S_otto, S_deal, S_empty, <<S_thai>>,
               Location(Some(1), Some(1)), ExpNone, "terms-8")
D9 == OfferDoc(S_o1, <<"m", "_", "1">>, S_otto, S_hot, S_empty, <<S_pizza>>,
               Location(Some(1), Some(2)), ExpNone, "terms-9")

\* offers index_offer is called with while the collection is read
RegistryDocs == {D1, D8, D9}

RegistryQueries == {S_empty, S_space, S_pizza, S_Pizza, S_thai}
RegistryMerchants == {S_empty, S_m2, S_m3}
RegistryLabels == {<<>>, <<S_pizza>>, <<S_pizza, S_thai>>}
RegistryLimits == {1, 20}
RegistryOffsets == {0, 1}
RegistryIds == {S_o1, S_o2, S_o9, unique_id_of(S_m2, S_o1)}

\* OfferRegistry.search_offers(query, filters)
RegSearch(query, merchant_id, labels, limit, offset) ==
    /\ \E out \in {OfferRegistry_search_offers(store,
                        [up |-> up, api_key |-> procs["api"].api_key, backend_ok |-> TRUE],
                        query,
                        [merchant_id |-> merchant_id, labels |-> labels,
                         limit |-> limit, offset |-> offset])} :
          /\ sreq' = [kind |-> "search_offers", query |-> query,
                      merchant_id |-> merchant_id, labels |-> labels,
                      limit |-> limit, offset |-> offset, up |-> up]
          /\ sresp' = [kind |-> "offers", offers |-> out.offers]
    /\ UNCHANGED <<coll, store, up, procs, calls, ranking, sin, sout>>

\* get_offer_by_id with its store purged of expired points on the way
RegGet_purge(offer_id) ==
    /\ sreq' = [kind |-> "get_offer_by_id", offer_id |-> offer_id, up |-> up]
    /\ sresp' = [kind |-> "offer",
                 found |-> OfferRegistry_get_offer_by_id(
                               store, up, procs["api"].secret, offer_id)]
    /\ store' = [id \in {i \in DOMAIN store :
                           calculate_time_score(store[i].payload, Now0) # RZero}
                   |-> store[id]]
    /\ UNCHANGED <<coll, up, procs, calls, ranking, sin, sout>>

\* OfferRegistry.get_offer_by_id(offer_id)
RegGet(offer_id) ==
    /\ sreq' = [kind |-> "get_offer_by_id", offer_id |-> offer_id, up |-> up]
    /\ sresp' = [kind |-> "offer",
                 found |-> OfferRegistry_get_offer_by_id(
                               store, up, procs["api"].secret, offer_id)]
    /\ UNCHANGED <<coll, store, up, procs, calls, ranking, sin, sout>>

\* OfferRegistry.get_offers_by_merchant(merchant_id)
RegByMerchant(merchant_id) ==
    /\ sreq' = [kind |-> "get_offers_by_merchant", merchant_id |-> merchant_id, up |-> up]
    /\ sresp' = [kind |-> "offers", offers |-> get_offers_by_merchant(store, up, merchant_id)]
    /\ UNCHANGED <<coll, store, up, procs, calls, ranking, sin, sout>>

\* OfferRegistry.get_registry_stats()
RegStats ==
    /\ sreq' = [kind |-> "get_registry_stats", up |-> up]
    /\ sresp' = [kind |-> "stats", stats |-> get_registry_stats(store, coll, up)]
    /\ UNCHANGED <<coll, store, up, procs, calls, ranking, sin, sout>>

\* the collection as one run of the ingestion left it; both processes run
\* with the same hash secret and without an API key
InitRegistry ==
    /\ coll = Some(CollectionConfig)
    /\ procs = [p \in Procs |-> [secret |-> 0, api_key |-> FALSE]]
    /\ store = IndexAll(0, FALSE, SearchDocs)
    /\ up = TRUE
    /\ calls = [c \in CallIds |-> Idle]
    /\ sreq = NoRequest
    /\ sresp = NoRequest
    /\ ranking = NoRequest
    /\ sin = NoRequest
    /\ sout = NoRequest

NextRegistry ==
    \/ \E q \in RegistryQueries, ls \in RegistryLabels :
          RegSearch(q, S_empty, ls, 20, 0)
    \/ \E x \in RegistryIds : RegGet(x)
    \/ \E m \in RegistryMerchants \ {S_empty} : RegByMerchant(m)
    \/ RegStats
    \/ \E offer \in RegistryDocs : IndexBegin("c1", "script", offer, TRUE)
    \/ IndexUpsert("c1")
    \/ StoreDown
    \/ StoreUp

SpecRegistry == InitRegistry /\ [][NextRegistry]_vars

\* search_offers alone, under every combination of query and filters, on the
\* collection as ingested
NextRegistrySearch ==
    \/ \E q \in RegistryQueries, m \in RegistryMerchants, ls \in RegistryLabels,
          limit \in RegistryLimits, offset \in RegistryOffsets :
          RegSearch(q, m, ls, limit, offset)
    \/ StoreDown
    \/ StoreUp

SpecRegistrySearch == InitRegistry /\ [][NextRegistrySearch]_vars

----------------------------------------------------------------------------
(* Claims about indexing *)

Returned(c) == calls[c].pc = "returned"
CallPayload(c) == Payload(calls[c].offer, calls[c].search_text)

\* C2: the step in which an index_offer call for a pair returns leaves exactly
\* one point whose payload names that pair, and that point carries the
\* payload of this (latest) call.
C2_IdempotentIndexing ==
    [][\A c \in CallIds :
        (calls[c].pc = "embedded" /\ calls'[c].pc = "returned") =>
            LET pair == PairOf(calls[c].offer)
            IN  /\ Cardinality(PointsOfPair(store', pair)) = 1
                /\ \A id \in PointsOfPair(store', pair) :
                       store'[id].payload = CallPayload(c)]_vars

\* C3: re-ingesting an offer, by whichever process and after any restart,
\* overwrites its point: the collection never holds two points for one
\* (merchant_id, offer_id).
C3_ReingestNeverDuplicates ==
    \A pair \in Pairs : Cardinality(PointsOfPair(store, pair)) <= 1

\* C10: once two index_offer calls for the same pair with different payloads
\* have both returned, the collection holds exactly one point for the pair,
\* and it is the whole payload and vector of one of the two calls.
C10_ConcurrentIndexOnePoint ==
    \A c, o \in CallIds :
        (c # o /\ Returned(c) /\ Returned(o)
           /\ PairOf(calls[c].offer) = PairOf(calls[o].offer)
           /\ calls[c].offer # calls[o].offer) =>
            LET ids == PointsOfPair(store, PairOf(calls[c].offer))
            IN  /\ Cardinality(ids) = 1
                /\ \A id \in ids :
                      \E w \in {c, o} :
                          /\ store[id].payload = CallPayload(w)
                          /\ store[id].vector = calls[w].embedding

\* C11: every step of ensure_collection, whoever else is starting, leaves the
\* collection with the configured dimension and metric once it has returned,
\* never fails because the collection already exists, never replaces an
\* existing collection and never removes a stored point.
C11_EnsureCollectionIdempotent ==
    [][/\ \A c \in CallIds :
            /\ calls'[c].pc = "ensured" => coll' = Some(CollectionConfig)
            /\ calls'[c].pc = "failed" => calls'[c].error = "unreachable"
       /\ coll # None => coll' = coll
       /\ store' = store]_vars

\* the embedding backend was called for c's text and the call failed: the
\* process has a credential and the vector is the fallback's
EmbeddingFailed(c) ==
    procs[calls[c].proc].api_key /\ calls[c].embedding.origin = "mock"

\* C13: index_offer returns normally only when the store answered and the
\* embedding step did not fail, and then the offer's point, with the call's
\* payload and vector, is in the store; in every other case it raises.
C13_IndexOfferNeverDrops ==
    [][\A c \in CallIds :
         /\ (calls[c].pc = "embedded" /\ calls'[c].pc = "returned") =>
               /\ up
               /\ ~EmbeddingFailed(c)
               /\ \E id \in DOMAIN store' :
                     /\ store'[id].payload = CallPayload(c)
                     /\ store'[id].vector = calls[c].embedding
         /\ (calls[c].pc = "embedded" /\ (~up \/ EmbeddingFailed(c))) =>
               calls'[c].pc \in {"embedded", "raised", "idle"}]_vars

\* the payloads of the indexed offers that id names: by its bare offer_id or
\* by its merchant-qualified id
NamedBy(id) ==
    {store[p].payload : p \in {q \in DOMAIN store :
        \/ store[q].payload.offer_id = id
        \/ store[q].payload.unique_id = id}}

\* C14: a lookup the store answers finds an offer for every id that names an
\* indexed offer, bare or merchant-qualified, and that offer is one the id
\* names; an id that names none, and any lookup the store does not answer,
\* gives None.
C14_LookupFindsIndexedOffer ==
    sresp.kind = "offer" =>
        IF sreq.up /\ NamedBy(sreq.offer_id) # {}
        THEN sresp.found # None /\ sresp.found[1] \in NamedBy(sreq.offer_id)
        ELSE sresp.found = None

C21_NotFoundOnlyForUnknownId ==
    sresp.kind = "offer" =>
        /\ ~sreq.up => sresp.http.status # 404
        /\ (sreq.up /\ NamedBy(sreq.offer_id) = {}) => sresp.http.status = 404
        /\ (sreq.up /\ NamedBy(sreq.offer_id) # {}) =>
              /\ sresp.http.status = 200
              /\ sresp.http.success
              /\ sresp.http.offer # None
              /\ \E payload \in NamedBy(sreq.offer_id) :
                    /\ sresp.http.offer[1].offer_id = payload.offer_id
                    /\ sresp.http.offer[1].title = payload.title
                    /\ sresp.http.offer[1].terms = payload.terms

\* the offer documents the source lists under merchants whose feed answers
Listed(src) ==
    UNION {{<<m, o>> : o \in 1..Len(src.merchants[m].offers)} :
             m \in {n \in 1..Len(src.merchants) : src.merchants[n].osf_ok}}

StoredAsIndexed(doc) ==
    \E id \in DOMAIN store : store[id].payload = Payload(doc, generate_search_text(doc))

\* C12: an ingestion run whose merchant list was fetched never raises; when it
\* has returned, it has gone through every offer reference of every feed it
\* could fetch, whatever failed before, every offer it fetched and indexed is
\* in the store, and it has answered with its counts.
C12_IngestionToleratesFailures ==
    \A c \in CallIds :
        /\ (sreq.kind = "source" /\ calls[c].pc = "raised") => ~sreq.list_ok
        /\ (sreq.kind = "source" /\ calls[c].pc = "returned") =>
              /\ \A r \in Listed(sreq) :
                    \E i \in 1..Len(calls[c].log) :
                        calls[c].log[i].m = r[1] /\ calls[c].log[i].o = r[2]
              /\ \A i \in 1..Len(calls[c].log) :
                    calls[c].log[i].outcome = "indexed" =>
                        StoredAsIndexed(
                          sreq.merchants[calls[c].log[i].m].offers[calls[c].log[i].o].doc)
              /\ sresp.kind = "counts"

\* an ingestion run has returned after a failed offer and a later indexed one
C12_ReturnedAfterFailure ==
    \E c \in CallIds :
        /\ sreq.kind = "source"
        /\ calls[c].pc = "returned"
        /\ \E i, j \in 1..Len(calls[c].log) :
              /\ i < j
              /\ calls[c].log[i].outcome # "indexed"
              /\ calls[c].log[j].outcome = "indexed"

\* the offers of the run's log for which index_offer completed
IndexedInRun(call) == {i \in 1..Len(call.log) : call.log[i].outcome = "indexed"}

----------------------------------------------------------------------------
(* Claims about the embedding adapters *)

Embedded(p) == sin.kind = "texts" /\ sout[p].kind = "embeddings"
Blank(text) == text = <<>> \/ Strip(text) = <<>>
FallbackMode(p) == ~sout[p].api_key \/ ~sout[p].backend_ok

C16_SimilarityNeverRaises ==
    \A p \in Procs :
        (sin.kind = "vectors" /\ sout[p].kind = "similarity") =>
            /\ ~sout[p].similarity.raised
            /\ ~sout[p].es_similarity.raised
            /\ (ZipDot(sin.e1, sin.e1, Len(sin.e1)) = 0
                  \/ ZipDot(sin.e2, sin.e2, Len(sin.e2)) = 0) =>
                   /\ sout[p].similarity = Value(RZero)
                   /\ sout[p].es_similarity = Value(RZero)

\* C17: get_embedding and get_embeddings_batch of VectorSearchService give
\* the zero vector of 1536 components for an empty or whitespace-only text,
\* and in fallback mode the batch agrees with get_embedding at every position.
C17_BlankTextIsZeroVector ==
    \A p \in Procs :
        Embedded(p) =>
            \A i \in 1..Len(sin.texts) :
                /\ Blank(sin.texts[i]) =>
                      /\ sout[p].single[i] = ZeroEmbedding
                      /\ sout[p].batch[i] = ZeroEmbedding
                /\ FallbackMode(p) => sout[p].batch[i] = sout[p].single[i]

\* C18: without a credential, or when the backend call fails, every entry
\* point of both adapters answers with the fallback vector of the text
\* (get_embedding of VectorSearchService for every text that reaches the
\* backend decision, that is every non-blank text) and none raises.
C18_BackendFailureFallsBack ==
    \A p \in Procs :
        (Embedded(p) /\ FallbackMode(p)) =>
            \A i \in 1..Len(sin.texts) :
                /\ ~Blank(sin.texts[i]) => sout[p].single[i] = sout[p].fallback[i]
                /\ sout[p].batch[i] = sout[p].fallback[i]
                /\ sout[p].es_single[i] = sout[p].es_fallback[i]
                /\ sout[p].es_batch[i] = sout[p].es_fallback[i]

\* a process that has a credential met a failing backend on a non-blank text
C18_BackendFailed ==
    \E p \in Procs :
        /\ Embedded(p)
        /\ sout[p].api_key /\ ~sout[p].backend_ok
        /\ \E i \in 1..Len(sin.texts) : ~Blank(sin.texts[i])

----------------------------------------------------------------------------
(* Claims about searching and scoring *)

Answered == sresp.kind = "response"

\* every candidate matching the query and the filters of req, in retrieval
\* order: what the registry returns when nothing is cut off
CandidatePool(req) ==
    OfferRegistry_search_offers(store, EnvOf(req), req.query,
        [merchant_id |-> <<>>, labels |-> req.labels,
         limit |-> Cardinality(DOMAIN store), offset |-> 0]).offers

FullRanking(req) == apply_hybrid_ranking(CandidatePool(req), req)

\* C1: the page returned for (offset, limit) is ranked_pool[offset : offset +
\* limit], ranked_pool being the hybrid ranking of the whole candidate pool.
C1_PageIsSliceOfFullRanking ==
    (Answered /\ sreq.up /\ ~FullRanking(sreq).raised) =>
        sresp.offers = Slice(FullRanking(sreq).offers, sreq.offset, sreq.limit)

InUnit(r) == RLeq(RZero, r) /\ RLeq(r, ROne)

\* C4: scoring a candidate never raises, and its semantic, geo, time and
\* combined scores all lie in [0, 1].
C4_ScoresInUnitIntervalNoAbort ==
    sout.kind = "scores" =>
        /\ ~sout.geo.raised
        /\ ~sout.entry.raised
        /\ InUnit(sout.semantic) /\ InUnit(sout.geo.value) /\ InUnit(sout.time)
        /\ InUnit(sout.entry.scores.combined)

\* the instant an expires_at value denotes, read as UTC when it names no offset
DenotesInstant(e) == e.kind = "datetime" \/ (e.kind = "str" /\ e.form # "bad")
InstantOf(e) ==
    IF e.kind = "str"
    THEN (IF e.form = "offset" THEN e.wall - e.off ELSE e.wall)
    ELSE (IF e.aware THEN e.wall - e.off ELSE e.wall)

\* C5: an offer whose expires_at, in whatever form, denotes an instant
\* strictly before now has time score 0.
C5_ExpiredScoresZero ==
    (sout.kind = "scores" /\ DenotesInstant(sin.offer.expires_at)
        /\ InstantOf(sin.offer.expires_at) < sin.now) =>
        sout.time = RZero

HasCoordinates(loc) == loc.lat # None /\ loc.lng # None
DistanceTo(loc) == haversine_distance_m(sin.lat[1], sin.lng[1], loc.lat[1], loc.lng[1])

\* C6: for a query with a location and radius_m > 0, the geo score of an offer
\* with coordinates is 1.0 at distance 0, 0.8 at the radius, 0.0 from twice
\* the radius on, and no offer farther away scores higher.
C6_GeoScoreMonotone ==
    (sout.kind = "scores" /\ sin.lat # None /\ sin.lng # None /\ sin.radius_m > 0
        /\ HasCoordinates(sin.offer.location)) =>
        LET d == DistanceTo(sin.offer.location)
        IN  /\ ~sout.geo.raised
            /\ d = 0 => sout.geo.value = ROne
            /\ d = sin.radius_m => sout.geo.value = Rat(8, 10)
            /\ d >= 2 * sin.radius_m => sout.geo.value = RZero
            /\ \A loc \in OfferLocations :
                  (HasCoordinates(loc) /\ DistanceTo(loc) >= d) =>
                      LET farther == calculate_geo_score([sin.offer EXCEPT !.location = loc],
                                                         sin.lat, sin.lng, sin.radius_m)
                      IN  ~farther.raised /\ RLeq(farther.value, sout.geo.value)

QuerySuppliesLocation == sin.lat # None /\ sin.lng # None

\* C19: a missing location is scored and never removes the candidate: the geo
\* score is 0.5 when the query supplies no location, 0.3 when the query
\* supplies one and the offer has no coordinates, and in both cases the loop
\* body of the ranking yields its entry for the offer.
C19_MissingLocationScored ==
    sout.kind = "scores" =>
        /\ ~QuerySuppliesLocation =>
              sout.geo = Value(Rat(1, 2)) /\ ~sout.entry.raised
        /\ (QuerySuppliesLocation /\ ~HasCoordinates(sin.offer.location)) =>
              sout.geo = Value(Rat(3, 10)) /\ ~sout.entry.raised

\* the freshness bucket of a number of whole days until expiry
FreshnessBucket(days) ==
    IF days <= 7 THEN ROne
    ELSE IF days <= 30 THEN Rat(8, 10)
    ELSE IF days <= 90 THEN Rat(6, 10)
    ELSE Rat(4, 10)

\* C20: an offer without expires_at has time score 0.5, and an offer whose
\* expires_at, in whatever form, denotes an instant not before now has the
\* score of its bucket of whole days until expiry: 1.0 up to 7 days, 0.8 up
\* to 30, 0.6 up to 90, 0.4 beyond.
C20_TimeScoreBuckets ==
    sout.kind = "scores" =>
        /\ sin.offer.expires_at.kind = "none" => sout.time = Rat(1, 2)
        /\ (DenotesInstant(sin.offer.expires_at)
              /\ InstantOf(sin.offer.expires_at) >= sin.now) =>
              sout.time = FreshnessBucket(
                  (InstantOf(sin.offer.expires_at) - sin.now) \div DayHours)

Ranked == ranking.kind = "ranking" /\ ~ranking.ranked.raised
PositionIn(xs, x) == CHOOSE i \in 1..Len(xs) : xs[i] = x

\* C7: apply_hybrid_ranking returns all its candidates, in descending order of
\* combined score, candidates of equal score in their retrieval order.
C7_SortedDescendingStable ==
    Ranked =>
        LET scored == ranking.ranked.scored
            base == ranking.base_results
        IN  /\ Len(scored) = Len(base)
            /\ \A i \in 1..Len(base) : InList(base[i], ranking.ranked.offers)
            /\ \A i, j \in 1..Len(scored) :
                  i < j =>
                     /\ RLeq(scored[j].scores.combined, scored[i].scores.combined)
                     /\ scored[i].scores.combined = scored[j].scores.combined =>
                           PositionIn(base, scored[i].offer) < PositionIn(base, scored[j].offer)

\* a ranking that holds two candidates of equal score and that moved a
\* candidate ahead of one retrieved before it
C7_TieAndReorderRanked ==
    /\ Ranked
    /\ LET scored == ranking.ranked.scored
           base == ranking.base_results
       IN  /\ \E i, j \in 1..Len(scored) :
                 i < j /\ scored[i].scores.combined = scored[j].scores.combined
           /\ \E i, j \in 1..Len(scored) :
                 i < j /\ PositionIn(base, scored[i].offer) > PositionIn(base, scored[j].offer)

\* C8: total is the size of the candidate pool, whatever limit and offset are.
C8_TotalIsPoolSize ==
    (Answered /\ sreq.up /\ Ranked) => sresp.total = Len(CandidatePool(sreq))

\* C9: a search made while the store is unreachable raises nothing, neither
\* in the registry nor in the service, and answers no offers, total 0 and the
\* request's limit and offset.
C9_UnreachableStoreGivesEmpty ==
    (Answered /\ ~sreq.up) =>
        /\ ~ranking.registry_raised
        /\ ~sresp.raised
        /\ sresp.offers = <<>>
        /\ sresp.total = 0
        /\ sresp.limit = sreq.limit
        /\ sresp.offset = sreq.offset

\* a search for "pizza" answered while the store, which holds matching
\* offers, was unreachable
C9_SearchedWhileDown ==
    /\ Answered
    /\ ~sreq.up
    /\ sreq.query = S_pizza
    /\ CandidatePool([sreq EXCEPT !.up = TRUE]) # <<>>
    /\ sresp.offers = <<>>

\* C22: the offers GET /offers returns are in descending order of the
\* combined score of the request: no returned offer stands behind one whose
\* combined score is smaller.
C22_EndpointHybridRanked ==
    (sresp.kind = "http" /\ ranking.kind = "raw") =>
        \A i, j \in 1..Len(ranking.parsed) :
            (/\ i < j
             /\ ~ScoreOffer(ranking.parsed[i], sreq).raised
             /\ ~ScoreOffer(ranking.parsed[j], sreq).raised) =>
                RLeq(ScoreOffer(ranking.parsed[j], sreq).scores.combined,
                     ScoreOffer(ranking.parsed[i], sreq).scores.combined)

\* C23: in a ranking every candidate's combined score is 0.5 x semantic +
\* 0.3 x geo + 0.2 x time of its own three scores for the request (ten
\* times the combined score is 5, 3 and 2 times the components), and a
\* candidate with a larger combined score always ranks ahead of one with a
\* smaller.
C23_CombinedIsWeightedSum ==
    Ranked =>
        LET scored == ranking.ranked.scored
        IN  /\ \A i \in 1..Len(scored) :
                  /\ scored[i].scores.semantic =
                        calculate_semantic_score(scored[i].offer, sreq.query)
                  /\ Value(scored[i].scores.geo) =
                        calculate_geo_score(scored[i].offer, sreq.lat, sreq.lng,
                                            sreq.radius_m)
                  /\ scored[i].scores.time =
                        calculate_time_score(scored[i].offer, sreq.now)
                  /\ RMul(Rat(10, 1), scored[i].scores.combined) =
                        RAdd(RAdd(RMul(Rat(5, 1), scored[i].scores.semantic),
                                  RMul(Rat(3, 1), scored[i].scores.geo)),
                             RMul(Rat(2, 1), scored[i].scores.time))
            /\ \A i, j \in 1..Len(scored) :
                  RLt(scored[j].scores.combined, scored[i].scores.combined) => i < j

\* C23 witness: a ranking in which the candidate ahead has the larger
\* combined score although its geo score is the smaller and its time score
\* differs from the other's
C23_RankedAgainstOneComponent ==
    /\ Ranked
    /\ \E i, j \in 1..Len(ranking.ranked.scored) :
          /\ i < j
          /\ RLt(ranking.ranked.scored[j].scores.combined,
                 ranking.ranked.scored[i].scores.combined)
          /\ RLt(ranking.ranked.scored[i].scores.geo,
                 ranking.ranked.scored[j].scores.geo)
          /\ ranking.ranked.scored[i].scores.time # ranking.ranked.scored[j].scores.time

\* C30: the semantic score of an offer is the same for any two queries that
\* differ only in letter case.
C30_SemanticScoreIgnoresCase ==
    sout.kind = "scores" =>
        \A q \in ScoreQueries :
            Lower(q) = Lower(sin.query) =>
                calculate_semantic_score(sin.offer, q) = sout.semantic

\* C28: when the query supplies a latitude and a longitude and the offer has
\* both coordinates, 0.0 included, the geo score is the score of the distance
\* between them, not a missing-location value.
C28_ZeroCoordinateIsPresent ==
    (sout.kind = "scores" /\ QuerySuppliesLocation
        /\ HasCoordinates(sin.offer.location)) =>
        sout.geo = geo_score_of_distance(DistanceTo(sin.offer.location), sin.radius_m)

----------------------------------------------------------------------------
(* Claims about the registry's reads *)

ReadServed == <<sreq, sresp>>' # <<sreq, sresp>>
BlankQuery(q) == q = <<>> \/ Strip(q) = <<>>
FilterOf(x) == IF x = <<>> THEN None ELSE Some(x)

\* C24: a search_offers call the store answers returns the scroll page of the
\* filtered points when the query is empty or blank and the similarity page
\* of the filtered points otherwise; on both paths every returned offer has
\* the requested merchant_id when one is given and at least one of the
\* requested labels when some are given, and without filters a scroll from
\* point id 0 with room for the whole collection returns every stored offer.
C24_BothPathsFiltered ==
    [][(ReadServed /\ sreq'.kind = "search_offers") =>
         LET req == sreq'
             offers == sresp'.offers
         IN  /\ \A i \in 1..Len(offers) :
                   /\ req.merchant_id # <<>> => offers[i].merchant_id = req.merchant_id
                   /\ req.labels # <<>> =>
                        \E k \in 1..Len(req.labels) : InList(req.labels[k], offers[i].labels)
             /\ (req.up /\ BlankQuery(req.query)) =>
                   offers = qdrant_scroll(store, FilterOf(req.merchant_id),
                                          FilterOf(req.labels), req.limit, req.offset)
             /\ (req.up /\ ~BlankQuery(req.query)) =>
                   offers = qdrant_search(store,
                                get_embedding(Lower(Strip(req.query)),
                                              procs["api"].api_key, TRUE),
                                FilterOf(req.merchant_id), FilterOf(req.labels),
                                req.limit, req.offset)
             /\ (/\ req.up /\ BlankQuery(req.query)
                 /\ req.merchant_id = <<>> /\ req.labels = <<>>
                 /\ req.offset = 0 /\ req.limit >= Cardinality(DOMAIN store)) =>
                   \A id \in DOMAIN store : InList(store[id].payload, offers)]_vars

\* C24 witness: a similarity search under a merchant filter and a two-label
\* filter has returned an offer that carries only one of the two labels
C24_SearchedWithFilters ==
    /\ sreq.kind = "search_offers"
    /\ sreq.up
    /\ ~BlankQuery(sreq.query)
    /\ sreq.merchant_id = S_m2
    /\ Len(sreq.labels) = 2
    /\ \E i \in 1..Len(sresp.offers) :
          \E k \in 1..Len(sreq.labels) : ~InList(sreq.labels[k], sresp.offers[i].labels)

\* C25: a read leaves the collection, its points and their payloads as they
\* were, and no step of any registry operation removes a point: the points
\* stored before the step are stored after it and their number does not
\* decrease.
C25_ReadsChangeNothing ==
    [][/\ ReadServed => (store' = store /\ coll' = coll)
       /\ \A id \in DOMAIN store : id \in DOMAIN store'
       /\ Cardinality(DOMAIN store') >= Cardinality(DOMAIN store)]_vars

\* C25 witness: after an index_offer call has returned, get_offer_by_id has
\* retrieved an offer that is expired
C25_ExpiredOfferRetrieved ==
    /\ calls["c1"].pc = "returned"
    /\ sreq.kind = "get_offer_by_id"
    /\ sresp.found # None
    /\ calculate_time_score(sresp.found[1], Now0) = RZero

PairOfPayload(payload) == <<payload.merchant_id, payload.offer_id>>
PairsStored(st) == {PairOfPayload(st[id].payload) : id \in DOMAIN st}

\* C26: index_offer never gives an offer the point of an offer with another
\* (merchant_id, offer_id) pair: a stored point keeps its pair, and an
\* index_offer that returns for a pair not yet stored adds one point.
C26_DistinctOffersDistinctPoints ==
    [][/\ \A id \in DOMAIN store :
             /\ id \in DOMAIN store'
             /\ PairOfPayload(store'[id].payload) = PairOfPayload(store[id].payload)
       /\ \A c \in CallIds :
             (/\ calls[c].pc = "embedded" /\ calls'[c].pc = "returned"
              /\ PairOf(calls[c].offer) \notin PairsStored(store)) =>
                 Cardinality(DOMAIN store') = Cardinality(DOMAIN store) + 1]_vars

====
